---- MODULE Spec2Model ----
(***************************************************************************)
(* smart-conserve (src/main.py): generate_mock_data, analyze_energy_usage, *)
(* provide_recommendations and run_smart_conserve.                         *)
(*                                                                         *)
(* Numbers.  Python floats are binary floating point with a 53 bit         *)
(* significand and round-to-nearest, ties-to-even.  The model keeps the    *)
(* arithmetic and scales the width: a float has Precision significant bits *)
(* and random.random() returns k / 2^Precision, 0 <= k < 2^Precision, as   *)
(* CPython returns k / 2^53.  A number x is held as the integer            *)
(* x * 2^Precision ("units"); every float of magnitude >= 1 is a whole     *)
(* number of units and Fl rounds an exact result to the nearest float.     *)
(*                                                                         *)
(* Exceptions.  Each stage wraps its body in try/except Exception and the  *)
(* Runner wraps the whole run.  Whether a statement of a stage's body      *)
(* raises is an input of the stage: the random source of the generator     *)
(* works or raises (rng), and run_smart_conserve is modelled with a body   *)
(* of the analyzer or of the recommender that may raise ("raised"), which  *)
(* is what the handlers of lines 19, 37 and 53 are there for.  The         *)
(* statistics calls always raise on empty data.  SpecAnalyze and           *)
(* SpecRecommend call one function directly on floats, where nothing else  *)
(* raises.                                                                 *)
(***************************************************************************)
EXTENDS Integers, Sequences, FiniteSets

VARIABLES
    pc,               \* position of the running code
    energy_data,      \* run_smart_conserve: energy_data / the analyzer's argument
    insights,         \* run_smart_conserve: insights
    recommendations,  \* run_smart_conserve: recommendations
    rec_idx,          \* position of the for loop of lines 77-78
    exc,              \* the exception in flight inside run_smart_conserve
    escaped,          \* an exception left run_smart_conserve
    log,              \* the records handed to logging, in order
    calls,            \* history: stage calls made by run_smart_conserve
    raisedIn,         \* history: stages whose try body raised
    history,          \* history: direct calls of provide_recommendations
    rng               \* the random source: its coming outcomes, or that it raises

vars == <<pc, energy_data, insights, recommendations, rec_idx, exc, escaped,
          log, calls, raisedIn, history, rng>>

---------------------------------------------------------------------------
(* Bounds of the model *)

\* significand width of the model's floats (CPython: 53)
Precision == 10
\* the random source repeats its outcomes with this period
PatternLen == 2
\* longest sequence handed to analyze_energy_usage directly
MaxLen == 3
\* most direct calls of provide_recommendations in one behaviour
MaxCalls == 3

---------------------------------------------------------------------------
(* Program constants *)

HoursPerDay == 24
DaysPerWeek == 7
Lower == 200
Upper == 1000
HighThreshold == 750
ModerateUpper == 750
ModerateLower == 500

---------------------------------------------------------------------------
(* Floating point *)

Pow2[n \in Nat] == IF n = 0 THEN 1 ELSE 2 * Pow2[n - 1]

\* one watt, in units
One == Pow2[Precision]

\* the float of an integer literal of the source
Lit(w) == w * One

\* the number of binary digits of n
BitLen[n \in Nat] == IF n = 0 THEN 0 ELSE 1 + BitLen[n \div 2]

\* distance between neighbouring floats in the binade of n (n >= One)
Spacing(n) == Pow2[BitLen[n] - Precision]

\* the float nearest to num/den units, num >= 0, den > 0: num/den rounded to
\* a multiple of the spacing s of its binade, ties to the even multiple
FlDiv(num, den) ==
    LET nearest[n \in Nat, d \in Nat, s \in Nat] ==
            LET q == n \div (d * s)
                r == n % (d * s)
                up == 2 * r > d * s \/ (2 * r = d * s /\ q % 2 = 1)
            IN  (IF up THEN q + 1 ELSE q) * s
        exact[n \in Nat, d \in Nat] ==
            IF n \div d < One /\ n % d = 0
            THEN n \div d
            ELSE nearest[n, d, Spacing(n \div d)]
    IN  exact[num, den]

\* the float nearest to n units
Fl(n) == FlDiv(n, 1)

IsFloat(n) == Fl(n) = n

---------------------------------------------------------------------------
(* Log records and values *)

LogRecord(level, msg, arg) == [level |-> level, msg |-> msg, arg |-> arg]

EmptyList == << >>

\* the dict {}: a dict is the function from its keys to their values
EmptyDict == << >>

\* Python's truth value of a list / of a dict
Truthy(list) == Len(list) > 0
TruthyDict(dict) == DOMAIN dict # {}

TipAppliances == "Consider using energy-efficient appliances."
TipInsulation == "Check insulation in your home to reduce heating/cooling costs."
TipUnplug == "Unplug devices when not in use."
TipThermostats == "Use programmable thermostats to reduce energy consumption."
TipGreat == "You're doing great! Continue monitoring for further improvements."

---------------------------------------------------------------------------
(* generate_mock_data, lines 13-21 *)

\* the outcomes of random.random() the model draws from: k / 2^Precision
DrawSet ==
    { 0, 1, One - 1,                   \* the ends of [0, 1)
      3 * Pow2[Precision - 3],         \* 0.375:  200 + 800 * 0.375  = 500
      Pow2[Precision - 1],             \* 0.5:    600
      11 * Pow2[Precision - 4],        \* 0.6875: 200 + 800 * 0.6875 = 750
      11 * Pow2[Precision - 4] + 1 }

\* variant: a random source whose outcomes lie in (0, 1]
random_uniform_closed(a, b, k) == Fl(Lit(a) + Fl((b - a) * (k + 1)))

\* random.uniform(a, b) == a + (b - a) * random(), each operation rounded
random_uniform(a, b, k) == Fl(Lit(a) + Fl((b - a) * k))

\* range(24 * 7)
Hours == 1 .. (HoursPerDay * DaysPerWeek)

\* the i-th outcome of a random source that repeats pattern
Outcome(pattern, i) == pattern[((i - 1) % PatternLen) + 1]

Patterns == [1 .. PatternLen -> DrawSet]

\* a random source that works, for each pattern, and one that raises
RandomSources ==
    { [pattern |-> p, raises |-> FALSE] : p \in Patterns }
        \cup { [pattern |-> [i \in 1 .. PatternLen |-> 0], raises |-> TRUE] }

generate_mock_data(source) ==
    IF source.raises
    THEN [ret |-> EmptyList,
          log |-> << LogRecord("ERROR", "Error generating mock data", "") >>]
    ELSE [ret |-> [i \in Hours |->
                     random_uniform(Lower, Upper, Outcome(source.pattern, i))],
          log |-> << >>]

---------------------------------------------------------------------------
(* analyze_energy_usage, lines 23-39 *)

\* the exact sum of data, added up by halves
Sum(data) ==
    LET part[lo \in 1 .. Len(data) + 1, hi \in 0 .. Len(data)] ==
            IF lo > hi THEN 0
            ELSE IF lo = hi THEN data[lo]
            ELSE part[lo, (lo + hi) \div 2] + part[(lo + hi) \div 2 + 1, hi]
    IN  part[1, Len(data)]

Range(data) == { data[i] : i \in DOMAIN data }

max(data) == CHOOSE v \in Range(data) : \A w \in Range(data) : w <= v
min(data) == CHOOSE v \in Range(data) : \A w \in Range(data) : v <= w

\* variant: the sum over one more than the length
mean_off_by_one(data) == FlDiv(Sum(data), Len(data) + 1)

\* statistics.mean: the exact sum over the length, converted to a float once
mean(data) == FlDiv(Sum(data), Len(data))

\* variant: no data analysed as all zeros instead of failing
analyze_default_zero(data, raised) ==
    IF raised
    THEN [ret |-> EmptyDict,
          log |-> << LogRecord("ERROR", "Error analyzing energy usage", "") >>]
    ELSE IF Len(data) = 0
    THEN [ret |-> [average_usage |-> 0, max_usage |-> 0, min_usage |-> 0],
          log |-> << >>]
    ELSE [ret |-> [average_usage |-> mean(data),
                   max_usage |-> max(data),
                   min_usage |-> min(data)],
          log |-> << >>]

\* statistics.mean raises StatisticsError, max and min ValueError, on no data
analyze_energy_usage(data, raised) ==
    IF raised \/ Len(data) = 0
    THEN [ret |-> EmptyDict,
          log |-> << LogRecord("ERROR", "Error analyzing energy usage", "") >>]
    ELSE [ret |-> [average_usage |-> mean(data),
                   max_usage |-> max(data),
                   min_usage |-> min(data)],
          log |-> << >>]

---------------------------------------------------------------------------
(* provide_recommendations, lines 41-55 *)

\* variant: the list outlives the call (a module-level list)
StaleList == recommendations

\* recommendations = [] of line 43
FreshList == EmptyList

\* variant: the first band includes its threshold
provide_recommendations_ge(average_usage, raised) ==
    IF raised
    THEN [ret |-> FreshList,
          log |-> << LogRecord("ERROR", "Error providing recommendations", "") >>]
    ELSE [ret |-> IF average_usage >= Lit(HighThreshold)
                  THEN Append(Append(FreshList, TipAppliances), TipInsulation)
                  ELSE IF Lit(ModerateLower) < average_usage
                          /\ average_usage <= Lit(ModerateUpper)
                  THEN Append(Append(FreshList, TipUnplug), TipThermostats)
                  ELSE Append(FreshList, TipGreat),
          log |-> << >>]

\* variant: no else branch
provide_recommendations_no_else(average_usage, raised) ==
    IF raised
    THEN [ret |-> FreshList,
          log |-> << LogRecord("ERROR", "Error providing recommendations", "") >>]
    ELSE [ret |-> IF average_usage > Lit(HighThreshold)
                  THEN Append(Append(FreshList, TipAppliances), TipInsulation)
                  ELSE IF Lit(ModerateLower) < average_usage
                          /\ average_usage <= Lit(ModerateUpper)
                  THEN Append(Append(FreshList, TipUnplug), TipThermostats)
                  ELSE FreshList,
          log |-> << >>]

provide_recommendations(average_usage, raised) ==
    IF raised
    THEN [ret |-> FreshList,
          log |-> << LogRecord("ERROR", "Error providing recommendations", "") >>]
    ELSE [ret |-> IF average_usage > Lit(HighThreshold)
                  THEN Append(Append(FreshList, TipAppliances), TipInsulation)
                  ELSE IF Lit(ModerateLower) < average_usage
                          /\ average_usage <= Lit(ModerateUpper)
                  THEN Append(Append(FreshList, TipUnplug), TipThermostats)
                  ELSE Append(FreshList, TipGreat),
          log |-> << >>]

---------------------------------------------------------------------------
(* run_smart_conserve, lines 57-81 *)

NoExc == [type |-> "", msg |-> ""]

\* the classes "except Exception" catches, among those the code raises
ExceptionClasses == {"ValueError", "StatisticsError", "TypeError"}

\* variant: except KeyError as e
RunnerCatchesKeyErrorOnly(e) == e.type = "KeyError"

\* line 80: except Exception as e
RunnerCatches(e) == e.type \in ExceptionClasses

Call(fn, arg) == [fn |-> fn, arg |-> arg, at |-> Len(log)]

Init ==
    /\ pc = "start"
    /\ energy_data = EmptyList
    /\ insights = EmptyDict
    /\ recommendations = EmptyList
    /\ rec_idx = 0
    /\ exc = NoExc
    /\ escaped = FALSE
    /\ log = << >>
    /\ calls = << >>
    /\ raisedIn = {}
    /\ history = << >>
    /\ rng \in RandomSources

\* line 61: energy_data = generate_mock_data()
CallGenerator ==
    /\ pc = "start"
    /\ LET r == generate_mock_data(rng)
       IN  /\ energy_data' = r.ret
           /\ log' = log \o r.log
    /\ raisedIn' = IF rng.raises THEN raisedIn \cup {"generate_mock_data"}
                                 ELSE raisedIn
    /\ calls' = Append(calls, Call("generate_mock_data", 0))
    /\ pc' = "check_data"
    /\ UNCHANGED <<insights, recommendations, rec_idx, exc, escaped, history, rng>>

\* variant: the check of energy_data is missing
CheckDataNoAbort ==
    /\ pc = "check_data"
    /\ pc' = "analyze"
    /\ UNCHANGED <<energy_data, insights, recommendations, rec_idx, exc, escaped,
                   log, calls, raisedIn, history, rng>>

\* lines 62-63: if not energy_data: raise ValueError(...)
CheckData ==
    /\ pc = "check_data"
    /\ IF ~ Truthy(energy_data)
       THEN /\ exc' = [type |-> "ValueError", msg |-> "No energy data available."]
            /\ pc' = "except"
       ELSE /\ exc' = exc
            /\ pc' = "analyze"
    /\ UNCHANGED <<energy_data, insights, recommendations, rec_idx, escaped,
                   log, calls, raisedIn, history, rng>>

\* line 66: insights = analyze_energy_usage(energy_data)
CallAnalyzer ==
    /\ pc = "analyze"
    /\ \E raised \in BOOLEAN :
         LET r == analyze_energy_usage(energy_data, raised)
         IN  /\ insights' = r.ret
             /\ log' = log \o r.log
             /\ raisedIn' = IF r.ret = EmptyDict
                            THEN raisedIn \cup {"analyze_energy_usage"}
                            ELSE raisedIn
    /\ calls' = Append(calls, Call("analyze_energy_usage", Len(energy_data)))
    /\ pc' = "check_insights"
    /\ UNCHANGED <<energy_data, recommendations, rec_idx, exc, escaped, history, rng>>

\* lines 67-68: if not insights: raise ValueError(...)
CheckInsights ==
    /\ pc = "check_insights"
    /\ IF ~ TruthyDict(insights)
       THEN /\ exc' = [type |-> "ValueError", msg |-> "Could not analyze energy data."]
            /\ pc' = "except"
       ELSE /\ exc' = exc
            /\ pc' = "log_insights"
    /\ UNCHANGED <<energy_data, insights, recommendations, rec_idx, escaped,
                   log, calls, raisedIn, history, rng>>

\* line 71: logging.info(f"Energy Usage Insights: {insights}")
LogInsights ==
    /\ pc = "log_insights"
    /\ log' = Append(log, LogRecord("INFO", "Energy Usage Insights", insights))
    /\ pc' = "recommend"
    /\ UNCHANGED <<energy_data, insights, recommendations, rec_idx, exc, escaped,
                   calls, raisedIn, history, rng>>

\* line 74: recommendations = provide_recommendations(insights["average_usage"])
CallRecommender ==
    /\ pc = "recommend"
    /\ \E raised \in BOOLEAN :
         LET r == provide_recommendations(insights["average_usage"], raised)
         IN  /\ recommendations' = r.ret
             /\ log' = log \o r.log
             /\ raisedIn' = IF raised THEN raisedIn \cup {"provide_recommendations"}
                                      ELSE raisedIn
    /\ calls' = Append(calls, Call("provide_recommendations", insights["average_usage"]))
    /\ pc' = "log_header"
    /\ UNCHANGED <<energy_data, insights, rec_idx, exc, escaped, history, rng>>

\* line 76: logging.info("Energy Conservation Recommendations:")
LogHeader ==
    /\ pc = "log_header"
    /\ log' = Append(log, LogRecord("INFO", "Energy Conservation Recommendations:", ""))
    /\ rec_idx' = 1
    /\ pc' = "log_recs"
    /\ UNCHANGED <<energy_data, insights, recommendations, exc, escaped,
                   calls, raisedIn, history, rng>>

\* variant: the loop runs over reversed(recommendations)
LogRecReversed ==
    /\ pc = "log_recs"
    /\ rec_idx <= Len(recommendations)
    /\ log' = Append(log, LogRecord("INFO", "- ",
                        recommendations[Len(recommendations) - rec_idx + 1]))
    /\ rec_idx' = rec_idx + 1
    /\ UNCHANGED <<pc, energy_data, insights, recommendations, exc, escaped,
                   calls, raisedIn, history, rng>>

\* lines 77-78: for rec in recommendations: logging.info(f"- {rec}")
LogRec ==
    /\ pc = "log_recs"
    /\ rec_idx <= Len(recommendations)
    /\ log' = Append(log, LogRecord("INFO", "- ", recommendations[rec_idx]))
    /\ rec_idx' = rec_idx + 1
    /\ UNCHANGED <<pc, energy_data, insights, recommendations, exc, escaped,
                   calls, raisedIn, history, rng>>

\* the loop of line 77 is exhausted: the try block and the function end
Return ==
    /\ pc = "log_recs"
    /\ rec_idx > Len(recommendations)
    /\ pc' = "done"
    /\ UNCHANGED <<energy_data, insights, recommendations, rec_idx, exc, escaped,
                   log, calls, raisedIn, history, rng>>

\* variant: except Exception: pass
ExceptSilent ==
    /\ pc = "except"
    /\ exc' = NoExc
    /\ pc' = "done"
    /\ UNCHANGED <<energy_data, insights, recommendations, rec_idx, escaped,
                   log, calls, raisedIn, history, rng>>

\* lines 80-81: except Exception as e: logging.error(...)
Except ==
    /\ pc = "except"
    /\ IF RunnerCatches(exc)
       THEN /\ log' = Append(log, LogRecord("ERROR", "Error running smart-conserve", exc.msg))
            /\ escaped' = escaped
       ELSE /\ log' = log
            /\ escaped' = TRUE
    /\ exc' = NoExc
    /\ pc' = "done"
    /\ UNCHANGED <<energy_data, insights, recommendations, rec_idx,
                   calls, raisedIn, history, rng>>

Next ==
    \/ CallGenerator
    \/ CheckData
    \/ CallAnalyzer
    \/ CheckInsights
    \/ LogInsights
    \/ CallRecommender
    \/ LogHeader
    \/ LogRec
    \/ Return
    \/ Except

Spec == Init /\ [][Next]_vars

\* the interpreter runs the one thread until the function returns
FairSpec == Spec /\ WF_vars(Next)

---------------------------------------------------------------------------
(* Direct calls of analyze_energy_usage: the function on its argument.     *)
(* On a sequence of floats the statistics calls raise only when it is empty*)

\* the neighbouring floats of a float x >= One
NextUp(x) == x + Spacing(x)
NextDown(x) == x - Spacing(x - 1)

ReadingSet ==
    { random_uniform(Lower, Upper, k) : k \in DrawSet } \cup { One, NextUp(One) }

RECURSIVE SeqsUpTo(_, _)
SeqsUpTo(S, n) ==
    IF n = 0 THEN { << >> }
    ELSE LET shorter == SeqsUpTo(S, n - 1)
         IN  shorter \cup { Append(q, v) : q \in { t \in shorter : Len(t) = n - 1 }, v \in S }

InitAnalyze ==
    /\ pc = "call_analyze"
    /\ energy_data \in SeqsUpTo(ReadingSet, MaxLen)
    /\ insights = EmptyDict
    /\ recommendations = EmptyList
    /\ rec_idx = 0
    /\ exc = NoExc
    /\ escaped = FALSE
    /\ log = << >>
    /\ calls = << >>
    /\ raisedIn = {}
    /\ history = << >>
    /\ rng = [pattern |-> [i \in 1 .. PatternLen |-> 0], raises |-> FALSE]

AnalyzeDirect ==
    /\ pc = "call_analyze"
    /\ LET r == analyze_energy_usage(energy_data, FALSE)
       IN  /\ insights' = r.ret
           /\ log' = log \o r.log
    /\ pc' = "analyzed"
    /\ UNCHANGED <<energy_data, recommendations, rec_idx, exc, escaped,
                   calls, raisedIn, history, rng>>

NextAnalyze == AnalyzeDirect

SpecAnalyze == InitAnalyze /\ [][NextAnalyze]_vars

---------------------------------------------------------------------------
(* Direct calls of provide_recommendations on floats, one after another    *)

AverageSet ==
    { -Lit(50), 0, Lit(300),
      NextDown(Lit(500)), Lit(500), NextUp(Lit(500)),
      Lit(600),
      NextDown(Lit(750)), Lit(750), NextUp(Lit(750)),
      Lit(760), Lit(5000) }

InitRecommend ==
    /\ pc = "call_recommend"
    /\ energy_data = EmptyList
    /\ insights = EmptyDict
    /\ recommendations = EmptyList
    /\ rec_idx = 0
    /\ exc = NoExc
    /\ escaped = FALSE
    /\ log = << >>
    /\ calls = << >>
    /\ raisedIn = {}
    /\ history = << >>
    /\ rng = [pattern |-> [i \in 1 .. PatternLen |-> 0], raises |-> FALSE]

RecommendDirect ==
    /\ pc = "call_recommend"
    /\ Len(history) < MaxCalls
    /\ \E average \in AverageSet :
         LET r == provide_recommendations(average, FALSE)
         IN  /\ recommendations' = r.ret
             /\ log' = log \o r.log
             /\ history' = Append(history, [average |-> average, result |-> r.ret])
    /\ UNCHANGED <<pc, energy_data, insights, rec_idx, exc, escaped, calls, raisedIn, rng>>

NextRecommend == RecommendDirect

SpecRecommend == InitRecommend /\ [][NextRecommend]_vars

---------------------------------------------------------------------------
(* Properties *)

Abs(x) == IF x < 0 THEN -x ELSE x

HighTips == << TipAppliances, TipInsulation >>
ModerateTips == << TipUnplug, TipThermostats >>
GreatTips == << TipGreat >>

\* C1: every direct call of provide_recommendations on a number returns the
\* list of the band the number lies in: above 750 the two high usage tips,
\* above 500 and up to 750 the two moderate usage tips, up to 500 the one
\* doing great tip; 750 is moderate, 500 is doing great.
C1_ThresholdPartition ==
    \A i \in DOMAIN history :
        LET a == history[i].average
            r == history[i].result
        IN  /\ a > 750 * One => r = HighTips
            /\ (500 * One < a /\ a <= 750 * One) => r = ModerateTips
            /\ a <= 500 * One => r = GreatTips
            /\ r \in {HighTips, ModerateTips, GreatTips}

C1_Witness ==
    \E i, j \in DOMAIN history :
        /\ history[i].average = 750 * One /\ history[i].result = ModerateTips
        /\ history[j].average = 500 * One /\ history[j].result = GreatTips

\* C8: two direct calls of provide_recommendations with the same average
\* return the same list, whatever was called before or in between, and
\* every call on a number returns a non-empty list.
C8_PureTotal ==
    /\ \A i, j \in DOMAIN history :
          history[i].average = history[j].average
              => history[i].result = history[j].result
    /\ \A i \in DOMAIN history : Len(history[i].result) > 0

C8_Witness ==
    /\ Len(history) = 3
    /\ history[1].average = history[3].average
    /\ history[2].average # history[1].average
    /\ history[2].result # history[1].result
    /\ history[3].result = history[1].result

\* C3: a direct call of analyze_energy_usage on a non-empty sequence returns
\* max_usage, the largest element, min_usage, the smallest, and
\* average_usage, the float nearest to the sum over the length, with
\* max_usage >= average_usage >= min_usage; on one element all three are it.
C3_MeanMaxMin ==
    (pc = "analyzed" /\ Len(energy_data) > 0) =>
        LET n == Len(energy_data)
            total == Sum(energy_data)
            avg == insights["average_usage"]
            hi == insights["max_usage"]
            lo == insights["min_usage"]
        IN  /\ hi >= avg /\ avg >= lo
            /\ hi \in Range(energy_data) /\ \A v \in Range(energy_data) : v <= hi
            /\ lo \in Range(energy_data) /\ \A v \in Range(energy_data) : lo <= v
            /\ IsFloat(avg)
            /\ 2 * Abs(n * avg - total) <= n * Spacing(total \div n)
            /\ n = 1 => (avg = energy_data[1] /\ hi = avg /\ lo = avg)

C3_Witness ==
    /\ pc = "analyzed"
    /\ Len(energy_data) = 3
    /\ insights["max_usage"] > insights["average_usage"]
    /\ insights["average_usage"] > insights["min_usage"]
    /\ 3 * insights["average_usage"] # Sum(energy_data)

\* C5: a direct call of analyze_energy_usage on the empty sequence returns
\* the empty record and logs one error; the record of a non-empty
\* sequence has the three keys, so the two cannot be confused.
C5_EmptyRecord ==
    pc = "analyzed" =>
        IF Len(energy_data) = 0
        THEN /\ insights = EmptyDict
             /\ DOMAIN insights = {}
             /\ Len(log) = 1 /\ log[1].level = "ERROR"
        ELSE /\ DOMAIN insights = {"average_usage", "max_usage", "min_usage"}
             /\ insights # EmptyDict
             /\ log = << >>

C5_Witness ==
    /\ pc = "analyzed"
    /\ Len(energy_data) = 0
    /\ DOMAIN insights = {}
    /\ Len(log) = 1

\* C4: what generate_mock_data returned is either 168 values, each at
\* least 200 and below 1000, or, only when the random source raised, the
\* empty sequence.
C4_GeneratorRange ==
    pc # "start" =>
        IF "generate_mock_data" \in raisedIn
        THEN energy_data = << >>
        ELSE /\ Len(energy_data) = 168
             /\ \A i \in DOMAIN energy_data :
                   200 * One <= energy_data[i] /\ energy_data[i] < 1000 * One

C4_Witness ==
    /\ pc = "check_data"
    /\ Len(energy_data) = 168
    /\ \E i \in DOMAIN energy_data : energy_data[i] = 200 * One
    /\ \E i \in DOMAIN energy_data : energy_data[i] >= 999 * One

---------------------------------------------------------------------------
(* Properties of run_smart_conserve *)

IsError(e) == e.level = "ERROR"
IsRunnerError(e) == e.level = "ERROR" /\ e.msg = "Error running smart-conserve"
IsInsightsLine(e) == e.level = "INFO" /\ e.msg = "Energy Usage Insights"
IsHeader(e) == e.level = "INFO" /\ e.msg = "Energy Conservation Recommendations:"
IsTip(e) == e.level = "INFO" /\ e.msg = "- "

ErrorLines == SelectSeq(log, IsError)
RunnerErrorLines == SelectSeq(log, IsRunnerError)
InsightsLines == SelectSeq(log, IsInsightsLine)
HeaderLines == SelectSeq(log, IsHeader)
TipLines == SelectSeq(log, IsTip)

Called(fn) == { i \in DOMAIN calls : calls[i].fn = fn }

\* C2, as claimed: every finished run, whatever the stages returned, let no
\* exception escape and logged an Insights line and at least one tip.
C2_AlwaysReports ==
    pc = "done" =>
        /\ ~ escaped
        /\ Len(InsightsLines) >= 1
        /\ Len(TipLines) >= 1

\* C2, amended: no run lets an exception escape; a finished run in which no
\* stage failed logged one Insights line and at least one tip; a finished
\* run whose Generator or Analyzer returned its empty value logged neither.
C2_ReportsUnlessStageFails ==
    /\ ~ escaped
    /\ pc = "done" =>
          /\ raisedIn = {} => (Len(InsightsLines) = 1 /\ Len(TipLines) >= 1)
          /\ (energy_data = << >> \/ insights = EmptyDict)
                => (Len(InsightsLines) = 0 /\ Len(TipLines) = 0)

C2_Witness ==
    /\ pc = "done"
    /\ raisedIn = {}
    /\ Len(InsightsLines) = 1
    /\ Len(TipLines) = 1

\* C6: once the Generator has returned the empty sequence, the Analyzer and
\* the Recommender are never called; once the Analyzer has returned the
\* empty record, the Recommender is never called; in both cases no
\* Insights, header or tip line is logged and the finished run logged the
\* Runner's error; the Analyzer is never called on an empty sequence.
C6_AbortsAtFirstSentinel ==
    /\ (pc # "start" /\ energy_data = << >>) =>
          /\ Called("analyze_energy_usage") = {}
          /\ Called("provide_recommendations") = {}
          /\ InsightsLines = << >> /\ HeaderLines = << >> /\ TipLines = << >>
          /\ pc = "done" =>
                /\ Len(RunnerErrorLines) = 1
                /\ log[Len(log)] =
                     LogRecord("ERROR", "Error running smart-conserve",
                               "No energy data available.")
    /\ (Called("analyze_energy_usage") # {} /\ insights = EmptyDict) =>
          /\ Called("provide_recommendations") = {}
          /\ InsightsLines = << >> /\ HeaderLines = << >> /\ TipLines = << >>
          /\ pc = "done" =>
                /\ Len(RunnerErrorLines) = 1
                /\ log[Len(log)] =
                     LogRecord("ERROR", "Error running smart-conserve",
                               "Could not analyze energy data.")
    /\ \A i \in Called("analyze_energy_usage") : calls[i].arg > 0

C6_Witness ==
    /\ pc = "done"
    /\ Called("analyze_energy_usage") # {}
    /\ insights = EmptyDict
    /\ Len(RunnerErrorLines) = 1

\* what a stage returns when it fails
ReturnedEmpty(stage) ==
    CASE stage = "generate_mock_data" -> energy_data = << >>
      [] stage = "analyze_energy_usage" -> insights = EmptyDict
      [] stage = "provide_recommendations" -> recommendations = << >>

StageError(stage) ==
    CASE stage = "generate_mock_data" -> "Error generating mock data"
      [] stage = "analyze_energy_usage" -> "Error analyzing energy usage"
      [] stage = "provide_recommendations" -> "Error providing recommendations"

\* C7, as claimed: a finished run in which a stage failed holds that
\* stage's empty value and logged two error lines, the stage's and then
\* the Runner's.
C7_TwoErrorLinesPerFailure ==
    pc = "done" =>
        \A stage \in raisedIn :
            /\ ReturnedEmpty(stage)
            /\ Len(ErrorLines) = 2
            /\ ErrorLines[1].msg = StageError(stage)
            /\ IsRunnerError(ErrorLines[2])

\* C7, amended: a stage that fails logs its error and returns its empty
\* value; after a failure of the Generator or of the Analyzer the Runner
\* logs a second error line and ends; after a failure of the Recommender
\* the Runner logs the header and no tip, and no further error line.
C7_RunnerChecksTwoSentinels ==
    pc = "done" =>
        \A stage \in raisedIn :
            /\ ReturnedEmpty(stage)
            /\ ErrorLines[1].msg = StageError(stage)
            /\ IF stage = "provide_recommendations"
               THEN /\ Len(ErrorLines) = 1
                    /\ IsHeader(log[Len(log)])
                    /\ TipLines = << >>
               ELSE /\ Len(ErrorLines) = 2
                    /\ IsRunnerError(ErrorLines[2])
                    /\ IsRunnerError(log[Len(log)])

C7_Witness ==
    /\ pc = "done"
    /\ "provide_recommendations" \in raisedIn
    /\ Len(ErrorLines) = 1

Done == pc = "done"

\* the results were reported: the header and every tip of the list
Reported ==
    /\ Len(HeaderLines) = 1
    /\ Len(TipLines) = Len(recommendations)

\* C9, as claimed: a finished run let no exception escape, logged exactly
\* one Runner error line if a stage raised, and either reported the results
\* without a Runner error line or logged one Runner error line.
C9_EveryFailureLoggedByRunner ==
    Done =>
        /\ ~ escaped
        /\ raisedIn # {} => Len(RunnerErrorLines) = 1
        /\ \/ Reported /\ Len(RunnerErrorLines) = 0
           \/ ~ Reported /\ Len(RunnerErrorLines) = 1

\* how a finished run ended
C9_Outcome ==
    /\ ~ escaped
    /\ exc = NoExc
    /\ (energy_data = << >> \/ insights = EmptyDict)
          => (~ Reported /\ Len(RunnerErrorLines) = 1
              /\ IsRunnerError(log[Len(log)]))
    /\ (energy_data # << >> /\ insights # EmptyDict)
          => (Reported /\ Len(RunnerErrorLines) = 0)
    /\ "provide_recommendations" \in raisedIn
          => (Reported /\ Len(RunnerErrorLines) = 0)

\* C9, amended: every run finishes and lets no exception escape; the
\* exception a sentinel check raises (after the Generator or the Analyzer
\* returned its empty value) is caught by the Runner and logged as exactly
\* one Runner error line, the last line of the run; every other run, one
\* whose Recommender failed included, reports the results and logs no
\* Runner error line.
C9_TerminatesWithOneOutcome == <>Done /\ [](Done => C9_Outcome)

C9_Witness ==
    /\ Done
    /\ "provide_recommendations" \in raisedIn
    /\ Reported
    /\ Len(RunnerErrorLines) = 0

Positions(Test(_)) == { i \in DOMAIN log : Test(log[i]) }

\* C10: the Insights line is logged once, after the Generator and the
\* Analyzer were called and returned non-empty values, and before the
\* Recommender is called; the Recommender is called at most once, with
\* the average_usage of the logged Insights; the header follows the
\* Insights line; the tip lines follow the header and are the returned
\* list in its order, all of it once the run has finished.
C10_LogOrder ==
    LET I == Positions(IsInsightsLine)
        H == Positions(IsHeader)
        T == Positions(IsTip)
        R == Called("provide_recommendations")
    IN  /\ Cardinality(I) <= 1 /\ Cardinality(H) <= 1 /\ Cardinality(R) <= 1
        /\ \A i \in I :
              /\ Truthy(energy_data) /\ TruthyDict(insights)
              /\ log[i].arg = insights
              /\ \E g \in Called("generate_mock_data") : calls[g].at < i
              /\ \E a \in Called("analyze_energy_usage") : calls[a].at < i
        /\ \A r \in R :
              /\ I # {}
              /\ \A i \in I : /\ calls[r].at >= i
                              /\ calls[r].arg = log[i].arg["average_usage"]
        /\ \A h \in H : /\ R # {}
                        /\ \E i \in I : i < h
        /\ \A t \in T : \E h \in H : h < t
        /\ Len(TipLines) <= Len(recommendations)
        /\ \A j \in DOMAIN TipLines : TipLines[j].arg = recommendations[j]
        /\ (Done /\ H # {}) => Len(TipLines) = Len(recommendations)

C10_Witness ==
    /\ Done
    /\ Len(TipLines) = 2
    /\ TipLines[1].arg = TipUnplug
    /\ TipLines[2].arg = TipThermostats

====
